---- MODULE Spec2Model ----
(***************************************************************************)
(* Model of src/main.c: a borderless SDL3 window with a self-drawn title   *)
(* bar, client area and drop shadow.                                       *)
(*                                                                         *)
(* Numbers.  layout.scale is a float; the model keeps it as the numerator  *)
(* of a fraction over ScaleDen (scale = n / ScaleDen), so floorf and ceilf *)
(* are integer divisions.  Every other layout field is an integer-valued   *)
(* float (sums of ints, floorf and ceilf results) and is kept as an        *)
(* integer.  The float cursor position pos = area * scale is kept as the   *)
(* numerator area * n over ScaleDen.                                       *)
(*                                                                         *)
(* Assumption.  The three embedded shadow textures decode, and the left    *)
(* strip is ShadowLeftW wide and the bottom strip ShadowBottomH high, the  *)
(* sizes drawShadow draws them at.                                         *)
(***************************************************************************)
EXTENDS Integers, FiniteSets, Sequences, TLC

VARIABLES pc, done, exitStatus, appShouldExit, windowShouldBeRedrawn,
          layout, useLight, event, waitResult, winW, winH, dispScale,
          sysDark, frame, redraws, hit, op

vars == <<pc, done, exitStatus, appShouldExit, windowShouldBeRedrawn,
          layout, useLight, event, waitResult, winW, winH, dispScale,
          sysDark, frame, redraws, hit, op>>

----------------------------------------------------------------------------
(* Bounds of the model *)

\* scale = n / ScaleDen
ScaleDen == 4
\* largest scale numerator of the layout and hit-test specifications
MaxScaleNum == 8
\* smallest scale numerator of the layout and hit-test specifications
MinScaleNum == 2
\* window pixel sizes of the layout specification: 1..MaxW x 1..MaxH
MaxW == 48
MaxH == 128
\* the hit-test specification takes windows of SmallSize and of MinSize pixels
SmallSize == 64
\* the event loop stops taking non-quit events after this many redraws
MaxRedraws == 3

----------------------------------------------------------------------------
(* Program constants *)

ShadowLeftW == 16
ShadowBottomH == 16
TitleBarLogicalH == 30
EdgeLogical == 2
CornerLogical == 8
InitW == 800
InitH == 600
MinSize == 126

Light == [border   |-> <<200, 200, 200, 255>>,
          background |-> <<227, 227, 227, 255>>,
          titleBar |-> <<255, 255, 255, 255>>]
Dark == [border   |-> <<55, 55, 55, 255>>,
         background |-> <<27, 27, 27, 255>>,
         titleBar |-> <<0, 0, 0, 255>>]

EventTypes == {"QUIT", "WINDOW_EXPOSED", "WINDOW_PIXEL_SIZE_CHANGED",
               "WINDOW_DISPLAY_SCALE_CHANGED", "SYSTEM_THEME_CHANGED", "OTHER"}

Regions == {"RESIZE_TOPLEFT", "RESIZE_TOP", "RESIZE_TOPRIGHT", "RESIZE_LEFT",
            "RESIZE_RIGHT", "RESIZE_BOTTOMLEFT", "RESIZE_BOTTOM",
            "RESIZE_BOTTOMRIGHT", "DRAGGABLE", "NORMAL"}

StartupSteps == {"SDL_Init", "TTF_Init", "SDL_CreateWindow",
                 "SDL_CreateRenderer", "SDL_SetWindowHitTest"}

----------------------------------------------------------------------------
(* Arithmetic of the float expressions, for non-negative a *)

\* floorf(a / b)
Floor(a, b) == a \div b
\* ceilf(a / b)
Ceil(a, b) == (a + b - 1) \div b

Rect(x, y, w, h) == [x |-> x, y |-> y, w |-> w, h |-> h]

\* the zero-initialised global layout
ZeroLayout == [window |-> Rect(0, 0, 0, 0), background |-> Rect(0, 0, 0, 0),
               titleBar |-> Rect(0, 0, 0, 0), clientArea |-> Rect(0, 0, 0, 0),
               scale |-> 0]

NoFrame == [drawn |-> FALSE]
NoHit == [tested |-> FALSE]

----------------------------------------------------------------------------
(* updateLayout: w, h are SDL_GetWindowSizeInPixels, n / ScaleDen is       *)
(* SDL_GetWindowDisplayScale.  Returns the new layout and the dirty flag.  *)

\* the window without its shadow margins
backgroundRect(w, h) ==
    Rect(ShadowLeftW, ShadowBottomH, w - 2 * ShadowLeftW, h - 2 * ShadowBottomH)

\* a title bar drawn over the whole width of the background
titleBarRect_fullWidth(bg, n) ==
    LET border == Floor(n, ScaleDen)
    IN Rect(bg.x + border, bg.y + border, bg.w,
            Ceil(TitleBarLogicalH * n, ScaleDen))

\* the title bar, one border inside the background
titleBarRect(bg, n) ==
    LET border == Floor(n, ScaleDen)
    IN Rect(bg.x + border, bg.y + border, bg.w - 2 * border,
            Ceil(TitleBarLogicalH * n, ScaleDen))

\* a client area whose height forgets the border under the title bar
clientAreaRect_noMiddleBorder(bg, tb, n) ==
    LET border == Floor(n, ScaleDen)
        rh0 == bg.h - 2 * border
        rh == rh0 - tb.h
    IN Rect(tb.x, tb.y + tb.h + border, tb.w, rh)

\* the client area; rh is the height that remains for it
clientAreaRect(bg, tb, n) ==
    LET border == Floor(n, ScaleDen)
        rh0 == bg.h - 2 * border
        rh == rh0 - (tb.h + border)
    IN Rect(tb.x, tb.y + tb.h + border, tb.w, rh)

\* a layout update that does not mark the window dirty
updateLayout_notDirty(w, h, n) ==
    LET bg == backgroundRect(w, h)
        tb == titleBarRect(bg, n)
        ca == clientAreaRect(bg, tb, n)
    IN [layout |-> [window |-> Rect(0, 0, w, h), background |-> bg,
                    titleBar |-> tb, clientArea |-> ca, scale |-> n],
        windowShouldBeRedrawn |-> FALSE]

updateLayout(w, h, n) ==
    LET bg == backgroundRect(w, h)
        tb == titleBarRect(bg, n)
        ca == clientAreaRect(bg, tb, n)
    IN [layout |-> [window |-> Rect(0, 0, w, h), background |-> bg,
                    titleBar |-> tb, clientArea |-> ca, scale |-> n],
        windowShouldBeRedrawn |-> TRUE]

\* an event handler whose theme test is inverted
handleEvent_themeInverted(type, st, w, h, n, dark) ==
    CASE type = "QUIT" -> [st EXCEPT !.appShouldExit = TRUE]
      [] type = "WINDOW_EXPOSED" -> [st EXCEPT !.windowShouldBeRedrawn = TRUE]
      [] type \in {"WINDOW_PIXEL_SIZE_CHANGED", "WINDOW_DISPLAY_SCALE_CHANGED"} ->
            LET r == updateLayout(w, h, n)
            IN [st EXCEPT !.layout = r.layout,
                          !.windowShouldBeRedrawn = r.windowShouldBeRedrawn]
      [] type = "SYSTEM_THEME_CHANGED" ->
            [st EXCEPT !.useLight = dark, !.windowShouldBeRedrawn = TRUE]
      [] OTHER -> st

\* an event handler that recomputes the layout on expose too
handleEvent_exposeRelayout(type, st, w, h, n, dark) ==
    CASE type = "QUIT" -> [st EXCEPT !.appShouldExit = TRUE]
      [] type \in {"WINDOW_EXPOSED", "WINDOW_PIXEL_SIZE_CHANGED",
                   "WINDOW_DISPLAY_SCALE_CHANGED"} ->
            LET r == updateLayout(w, h, n)
            IN [st EXCEPT !.layout = r.layout,
                          !.windowShouldBeRedrawn = r.windowShouldBeRedrawn]
      [] type = "SYSTEM_THEME_CHANGED" ->
            [st EXCEPT !.useLight = ~dark, !.windowShouldBeRedrawn = TRUE]
      [] OTHER -> st

(* handleEvent: st holds the globals it can touch; w, h, n, dark are what  *)
(* the SDL queries return when it runs.                                    *)
handleEvent(type, st, w, h, n, dark) ==
    CASE type = "QUIT" -> [st EXCEPT !.appShouldExit = TRUE]
      [] type = "WINDOW_EXPOSED" -> [st EXCEPT !.windowShouldBeRedrawn = TRUE]
      [] type \in {"WINDOW_PIXEL_SIZE_CHANGED", "WINDOW_DISPLAY_SCALE_CHANGED"} ->
            LET r == updateLayout(w, h, n)
            IN [st EXCEPT !.layout = r.layout,
                          !.windowShouldBeRedrawn = r.windowShouldBeRedrawn]
      [] type = "SYSTEM_THEME_CHANGED" ->
            [st EXCEPT !.useLight = ~dark, !.windowShouldBeRedrawn = TRUE]
      [] OTHER -> st

\* SDL_PointInRectFloat on the float point (xn / ScaleDen, yn / ScaleDen)
PointInRectFloat(xn, yn, r) ==
    /\ xn >= r.x * ScaleDen
    /\ xn <= (r.x + r.w) * ScaleDen
    /\ yn >= r.y * ScaleDen
    /\ yn <= (r.y + r.h) * ScaleDen

\* a band test that forgets its lower limit
inBand_noLowerLimit(v, edge, tol) == v <= edge + tol

\* v lies within tol of edge: the test of each of the four border bands
inBand(v, edge, tol) == v >= edge - tol /\ v <= edge + tol

\* a corner test that takes the line by + cornerTol into the top corner
sideResult_inclusiveTop(y, by, bh, cornerTol, top, bottom, side) ==
    IF y <= by + cornerTol THEN top
    ELSE IF y >= by + bh - cornerTol THEN bottom
    ELSE side

\* inside the left or the right band: the top corner, the bottom corner or
\* the plain side
sideResult(y, by, bh, cornerTol, top, bottom, side) ==
    IF y < by + cornerTol THEN top
    ELSE IF y >= by + bh - cornerTol THEN bottom
    ELSE side

\* a hit test that tries the top and bottom bands before the side bands
hitTest_topBeforeSides(ax, ay, L) ==
    LET n == L.scale
        bx == L.background.x
        by == L.background.y
        bw == L.background.w
        bh == L.background.h
        x == Floor(ax * n, ScaleDen)
        y == Floor(ay * n, ScaleDen)
        edgeTol == Ceil(EdgeLogical * n, ScaleDen)
        cornerTol == Ceil(CornerLogical * n, ScaleDen)
    IN IF inBand(y, by, edgeTol) THEN "RESIZE_TOP"
       ELSE IF inBand(y, by + bh, edgeTol) THEN "RESIZE_BOTTOM"
       ELSE IF inBand(x, bx, edgeTol)
       THEN sideResult(y, by, bh, cornerTol, "RESIZE_TOPLEFT",
                       "RESIZE_BOTTOMLEFT", "RESIZE_LEFT")
       ELSE IF inBand(x, bx + bw, edgeTol)
       THEN sideResult(y, by, bh, cornerTol, "RESIZE_TOPRIGHT",
                       "RESIZE_BOTTOMRIGHT", "RESIZE_RIGHT")
       ELSE IF PointInRectFloat(ax * n, ay * n, L.titleBar) THEN "DRAGGABLE"
       ELSE "NORMAL"

(* hitTest: (ax, ay) is the SDL_Point handed to the callback; x and y are  *)
(* the float position converted to int                                     *)
hitTest(ax, ay, L) ==
    LET n == L.scale
        bx == L.background.x
        by == L.background.y
        bw == L.background.w
        bh == L.background.h
        x == Floor(ax * n, ScaleDen)
        y == Floor(ay * n, ScaleDen)
        edgeTol == Ceil(EdgeLogical * n, ScaleDen)
        cornerTol == Ceil(CornerLogical * n, ScaleDen)
    IN IF inBand(x, bx, edgeTol)
       THEN sideResult(y, by, bh, cornerTol, "RESIZE_TOPLEFT",
                       "RESIZE_BOTTOMLEFT", "RESIZE_LEFT")
       ELSE IF inBand(x, bx + bw, edgeTol)
       THEN sideResult(y, by, bh, cornerTol, "RESIZE_TOPRIGHT",
                       "RESIZE_BOTTOMRIGHT", "RESIZE_RIGHT")
       ELSE IF inBand(y, by, edgeTol) THEN "RESIZE_TOP"
       ELSE IF inBand(y, by + bh, edgeTol) THEN "RESIZE_BOTTOM"
       ELSE IF PointInRectFloat(ax * n, ay * n, L.titleBar) THEN "DRAGGABLE"
       ELSE "NORMAL"

(* drawWindow: what one redraw puts on screen *)
drawWindow(L, light) ==
    [drawn |-> TRUE,
     shadowW |-> L.window.w, shadowH |-> L.window.h,
     background |-> L.background,
     borderColor |-> IF light THEN Light.border ELSE Dark.border,
     titleBar |-> L.titleBar,
     titleBarColor |-> IF light THEN Light.titleBar ELSE Dark.titleBar,
     clientArea |-> L.clientArea,
     clientColor |-> IF light THEN Light.background ELSE Dark.background]

----------------------------------------------------------------------------
(* Inputs of the program specification *)

PixelSizes == {<<MinSize, MinSize>>, <<InitW, InitH>>}
Scales == {ScaleDen, (3 * ScaleDen) \div 2}
CursorPoints == {<<8, 8>>, <<15, 8>>, <<16, 60>>, <<60, 30>>, <<60, 80>>}

Globals == [appShouldExit |-> appShouldExit,
            windowShouldBeRedrawn |-> windowShouldBeRedrawn,
            layout |-> layout, useLight |-> useLight]

Init ==
    /\ pc = "initSDL"
    /\ done = {}
    /\ exitStatus = "running"
    /\ appShouldExit = FALSE
    /\ windowShouldBeRedrawn = TRUE
    /\ layout = ZeroLayout
    /\ useLight = TRUE
    /\ event \in EventTypes
    /\ waitResult = FALSE
    /\ \E s \in PixelSizes : winW = s[1] /\ winH = s[2]
    /\ dispScale \in Scales
    /\ sysDark \in BOOLEAN
    /\ frame = NoFrame
    /\ redraws = 0
    /\ hit = NoHit
    /\ op = "none"

Fail(steps, name) ==
    /\ pc' = "exited"
    /\ exitStatus' = "EXIT_FAILURE"
    /\ done' = done \cup steps
    /\ op' = name
    /\ UNCHANGED <<appShouldExit, windowShouldBeRedrawn, layout, useLight,
                   event, waitResult, winW, winH, dispScale, sysDark, frame,
                   redraws, hit>>

Pass(steps, name, next) ==
    /\ pc' = next
    /\ done' = done \cup steps
    /\ op' = name
    /\ UNCHANGED <<exitStatus, appShouldExit, windowShouldBeRedrawn, layout,
                   useLight, event, waitResult, winW, winH, dispScale, sysDark,
                   frame, redraws, hit>>

InitSDL ==
    /\ pc = "initSDL"
    /\ \E sdlOk, ttfOk \in BOOLEAN :
         IF ~sdlOk THEN Fail({}, "initSDL")
         ELSE IF ~ttfOk THEN Fail({"SDL_Init"}, "initSDL")
         ELSE Pass({"SDL_Init", "TTF_Init"}, "initSDL", "createWindow")

CreateWindow ==
    /\ pc = "createWindow"
    /\ \E wndOk, rndOk \in BOOLEAN :
         IF ~wndOk THEN Fail({}, "createWindow")
         ELSE IF ~rndOk THEN Fail({"SDL_CreateWindow"}, "createWindow")
         ELSE Pass({"SDL_CreateWindow", "SDL_CreateRenderer"}, "createWindow",
                   "setHitTest")

SetHitTest ==
    /\ pc = "setHitTest"
    /\ \E ok \in BOOLEAN :
         IF ~ok THEN Fail({}, "SDL_SetWindowHitTest")
         ELSE Pass({"SDL_SetWindowHitTest"}, "SDL_SetWindowHitTest", "setup")

Setup ==
    /\ pc = "setup"
    /\ LET r == updateLayout(winW, winH, dispScale)
       IN /\ layout' = r.layout
          /\ windowShouldBeRedrawn' = r.windowShouldBeRedrawn
    /\ useLight' = ~sysDark
    /\ pc' = "redraw"
    /\ op' = "setup"
    /\ UNCHANGED <<done, exitStatus, appShouldExit, event, waitResult, winW,
                   winH, dispScale, sysDark, frame, redraws, hit>>

Redraw ==
    /\ pc = "redraw"
    /\ IF windowShouldBeRedrawn
       THEN /\ frame' = drawWindow(layout, useLight)
            /\ redraws' = redraws + 1
            /\ windowShouldBeRedrawn' = FALSE
       ELSE UNCHANGED <<frame, redraws, windowShouldBeRedrawn>>
    /\ pc' = "wait"
    /\ op' = "redraw"
    /\ hit' = NoHit
    /\ UNCHANGED <<done, exitStatus, appShouldExit, layout, useLight, event,
                   waitResult, winW, winH, dispScale, sysDark>>

(* SDL_WaitEventTimeout then handleEvent then the loop test.  While it     *)
(* waits SDL pumps the window system: when it delivers an event the        *)
(* window's pixel size, its display scale and the system theme may all     *)
(* have changed (further events may still be queued).  On a timeout it     *)
(* returns false and leaves event as it was; its result is not looked at   *)
(* and handleEvent runs on event either way.                               *)
WaitAndHandle ==
    /\ pc = "wait"
    /\ \E got \in BOOLEAN, type \in EventTypes, s \in PixelSizes,
          n \in Scales, dark \in BOOLEAN :
         /\ redraws < MaxRedraws \/ (got /\ type = "QUIT")
         /\ ~got => (s = <<winW, winH>> /\ n = dispScale /\ dark = sysDark)
         /\ waitResult' = got
         /\ event' = IF got THEN type ELSE event
         /\ winW' = s[1]
         /\ winH' = s[2]
         /\ dispScale' = n
         /\ sysDark' = dark
         /\ LET st == handleEvent(event', Globals, s[1], s[2], n, dark)
            IN /\ appShouldExit' = st.appShouldExit
               /\ windowShouldBeRedrawn' = st.windowShouldBeRedrawn
               /\ layout' = st.layout
               /\ useLight' = st.useLight
               /\ pc' = IF st.appShouldExit THEN "exited" ELSE "redraw"
               /\ exitStatus' = IF st.appShouldExit THEN "EXIT_SUCCESS"
                                ELSE exitStatus
    /\ op' = "handleEvent"
    /\ hit' = NoHit
    /\ UNCHANGED <<done, frame, redraws>>

(* The hit-test callback, called by SDL while the loop waits for events *)
HitTestAt(ax, ay) ==
    /\ pc = "wait"
    /\ hit' = [tested |-> TRUE, x |-> ax, y |-> ay,
               result |-> hitTest(ax, ay, layout)]
    /\ op' = "hitTest"
    /\ UNCHANGED <<pc, done, exitStatus, appShouldExit, windowShouldBeRedrawn,
                   layout, useLight, event, waitResult, winW, winH, dispScale,
                   sysDark, frame, redraws>>

HitTest == \E p \in CursorPoints : HitTestAt(p[1], p[2])

Next == InitSDL \/ CreateWindow \/ SetHitTest \/ Setup \/ Redraw
        \/ WaitAndHandle \/ HitTest

Spec == Init /\ [][Next]_vars

----------------------------------------------------------------------------
(* The layout specification: startup has succeeded, the window has any     *)
(* pixel size in 1..MaxW x 1..MaxH and any scale in MinScaleNum..          *)
(* MaxScaleNum over ScaleDen, and main computes the first layout.          *)

InitLayout ==
    /\ pc = "setup"
    /\ done = StartupSteps
    /\ exitStatus = "running"
    /\ appShouldExit = FALSE
    /\ windowShouldBeRedrawn = TRUE
    /\ layout = ZeroLayout
    /\ useLight = TRUE
    /\ event = "OTHER"
    /\ waitResult = FALSE
    /\ winW \in 1..MaxW
    /\ winH \in 1..MaxH
    /\ dispScale \in MinScaleNum..MaxScaleNum
    /\ sysDark = FALSE
    /\ frame = NoFrame
    /\ redraws = 0
    /\ hit = NoHit
    /\ op = "SDL_SetWindowHitTest"

NextLayout == Setup

SpecLayout == InitLayout /\ [][NextLayout]_vars

----------------------------------------------------------------------------
(* The hit-test specification: the loop waits for events with the layout   *)
(* of some window drawn, and SDL asks for one cursor point inside the      *)
(* window.                                                                 *)

InitHit ==
    /\ pc = "wait"
    /\ done = StartupSteps
    /\ exitStatus = "running"
    /\ appShouldExit = FALSE
    /\ windowShouldBeRedrawn = FALSE
    /\ winW \in {SmallSize, MinSize}
    /\ winH \in {SmallSize, MinSize}
    /\ dispScale \in MinScaleNum..MaxScaleNum
    /\ layout = updateLayout(winW, winH, dispScale).layout
    /\ useLight = TRUE
    /\ event = "OTHER"
    /\ waitResult = FALSE
    /\ sysDark = FALSE
    /\ frame = drawWindow(layout, useLight)
    /\ redraws = 1
    /\ hit = NoHit
    /\ op = "redraw"

\* the cursor points whose physical pixel lies inside the window
HitQuery ==
    /\ hit = NoHit
    /\ \E ax \in 0..((layout.window.w * ScaleDen) \div layout.scale),
          ay \in 0..((layout.window.h * ScaleDen) \div layout.scale) :
         /\ Floor(ax * layout.scale, ScaleDen) < layout.window.w
         /\ Floor(ay * layout.scale, ScaleDen) < layout.window.h
         /\ HitTestAt(ax, ay)

NextHit == HitQuery

SpecHit == InitHit /\ [][NextHit]_vars

----------------------------------------------------------------------------
(* Properties of the layout *)

\* updateLayout has run: main is past its setup
LayoutComputed == pc \in {"redraw", "wait"} \/ (pc = "exited" /\ appShouldExit)

\* r has non-negative width and height and its four edges lie within o
Inside(r, o) ==
    /\ r.w >= 0
    /\ r.h >= 0
    /\ r.x >= o.x
    /\ r.y >= o.y
    /\ r.x + r.w <= o.x + o.w
    /\ r.y + r.h <= o.y + o.h

Nested(L) ==
    /\ Inside(L.background, L.window)
    /\ Inside(L.titleBar, L.background)
    /\ Inside(L.clientArea, L.background)

\* the window holds both shadow margins, the three borders and the title bar
HoldsChrome(L) ==
    /\ L.window.w >= 2 * ShadowLeftW + 2 * Floor(L.scale, ScaleDen)
    /\ L.window.h >= 2 * ShadowBottomH + Ceil(TitleBarLogicalH * L.scale, ScaleDen)
                       + 3 * Floor(L.scale, ScaleDen)

\* C1 as stated: for every positive window pixel size and positive scale the
\* layout updateLayout produces is nested (background in window, title bar in
\* background, client area in background).
C1_NestedForEverySize == LayoutComputed => Nested(layout)

\* C1 amended: the layout updateLayout produces is nested whenever the window
\* is at least 2 * margin + 2 * floor(scale) wide and at least
\* 2 * margin + ceil(30 * scale) + 3 * floor(scale) high.
C1_NestedWhenWindowHoldsChrome ==
    (LayoutComputed /\ HoldsChrome(layout)) => Nested(layout)

\* a nested layout at the fractional scale 1.5 with a client area left
C1_Witness ==
    /\ LayoutComputed
    /\ op = "setup"
    /\ HoldsChrome(layout)
    /\ 2 * layout.scale = 3 * ScaleDen
    /\ layout.clientArea.h > 0
    /\ Nested(layout)

\* C2: after every updateLayout, with border = floor(scale): the title bar is
\* ceil(30 * scale) high, the client area has the title bar's x and width,
\* starts one border below the title bar and is background height minus
\* title-bar height minus three borders high, so that border, title bar,
\* border, client area, border stacked from the background's top end exactly
\* at the background's bottom.
C2_VerticalStack ==
    LayoutComputed =>
        LET border == layout.scale \div ScaleDen
            bg == layout.background
            tb == layout.titleBar
            ca == layout.clientArea
        IN /\ tb.h * ScaleDen >= TitleBarLogicalH * layout.scale
           /\ (tb.h - 1) * ScaleDen < TitleBarLogicalH * layout.scale
           /\ ca.x = tb.x
           /\ ca.w = tb.w
           /\ ca.y = tb.y + tb.h + border
           /\ ca.h = bg.h - tb.h - 3 * border
           /\ tb.y = bg.y + border
           /\ bg.y + border + tb.h + border + ca.h + border = bg.y + bg.h

\* the layout of a window at scale 1.5: the 30-unit title bar is 45 pixels
C2_Witness ==
    /\ LayoutComputed
    /\ op = "setup"
    /\ 2 * layout.scale = 3 * ScaleDen
    /\ layout.titleBar.h = 45
    /\ layout.clientArea.h = layout.window.h - 2 * ShadowBottomH - 45 - 3
    /\ layout.clientArea.h > 0

----------------------------------------------------------------------------
(* Properties of the hit test.  They are stated on the last answer hit of  *)
(* the callback and the layout it was computed from.                       *)

Abs(a) == IF a < 0 THEN -a ELSE a

\* the physical pixel of the cursor: the scaled point, cut to an integer
PhysX == (hit.x * layout.scale) \div ScaleDen
PhysY == (hit.y * layout.scale) \div ScaleDen

\* the tolerances, as the least integers not below 2 * scale and 8 * scale
EdgeTolerance == CHOOSE t \in 0..(2 * layout.scale + 1) :
                    /\ t * ScaleDen >= 2 * layout.scale
                    /\ (t - 1) * ScaleDen < 2 * layout.scale
CornerTolerance == CHOOSE t \in 0..(8 * layout.scale + 1) :
                      /\ t * ScaleDen >= 8 * layout.scale
                      /\ (t - 1) * ScaleDen < 8 * layout.scale

BgLeft == layout.background.x
BgRight == layout.background.x + layout.background.w
BgTop == layout.background.y
BgBottom == layout.background.y + layout.background.h

NearLeft == Abs(PhysX - BgLeft) <= EdgeTolerance
NearRight == Abs(PhysX - BgRight) <= EdgeTolerance
NearTop == Abs(PhysY - BgTop) <= EdgeTolerance
NearBottom == Abs(PhysY - BgBottom) <= EdgeTolerance

\* the scaled point itself lies in rectangle r, edges included
ScaledPointIn(r) ==
    /\ r.x * ScaleDen <= hit.x * layout.scale
    /\ hit.x * layout.scale <= (r.x + r.w) * ScaleDen
    /\ r.y * ScaleDen <= hit.y * layout.scale
    /\ hit.y * layout.scale <= (r.y + r.h) * ScaleDen

\* C3: hitTest answers one of the ten regions for every point and layout, by
\* first match: within edgeTolerance of the left or right edge a left or right
\* side result; otherwise within edgeTolerance of the top edge Top; otherwise
\* of the bottom edge Bottom; otherwise Draggable exactly when the point lies
\* in the title bar, and Normal in all remaining cases.
C3_FirstMatchPrecedence ==
    hit.tested =>
        /\ hit.result \in Regions
        /\ NearLeft =>
             hit.result \in {"RESIZE_TOPLEFT", "RESIZE_LEFT", "RESIZE_BOTTOMLEFT"}
        /\ (~NearLeft /\ NearRight) =>
             hit.result \in {"RESIZE_TOPRIGHT", "RESIZE_RIGHT", "RESIZE_BOTTOMRIGHT"}
        /\ (~NearLeft /\ ~NearRight /\ NearTop) => hit.result = "RESIZE_TOP"
        /\ (~NearLeft /\ ~NearRight /\ ~NearTop /\ NearBottom) =>
             hit.result = "RESIZE_BOTTOM"
        /\ (~NearLeft /\ ~NearRight /\ ~NearTop /\ ~NearBottom) =>
             /\ hit.result = "DRAGGABLE" <=> ScaledPointIn(layout.titleBar)
             /\ hit.result \in {"DRAGGABLE", "NORMAL"}

\* a point of the title bar away from every edge band, answered Draggable
C3_Witness ==
    /\ hit.tested
    /\ ~NearLeft /\ ~NearRight /\ ~NearTop /\ ~NearBottom
    /\ ScaledPointIn(layout.titleBar)
    /\ hit.result = "DRAGGABLE"
    /\ layout.scale > ScaleDen

\* C4 as stated: within edgeTolerance of the left edge the answer is TopLeft
\* if y is within cornerTolerance of the top edge, BottomLeft if within
\* cornerTolerance of the bottom edge, Left otherwise; the same for the right
\* edge; a point on the left edge farther than cornerTolerance from the top and
\* the bottom edge is Left.
C4_CornerWithinTolerance ==
    hit.tested =>
        /\ NearLeft =>
             hit.result = IF Abs(PhysY - BgTop) <= CornerTolerance
                          THEN "RESIZE_TOPLEFT"
                          ELSE IF Abs(PhysY - BgBottom) <= CornerTolerance
                          THEN "RESIZE_BOTTOMLEFT"
                          ELSE "RESIZE_LEFT"
        /\ (~NearLeft /\ NearRight) =>
             hit.result = IF Abs(PhysY - BgTop) <= CornerTolerance
                          THEN "RESIZE_TOPRIGHT"
                          ELSE IF Abs(PhysY - BgBottom) <= CornerTolerance
                          THEN "RESIZE_BOTTOMRIGHT"
                          ELSE "RESIZE_RIGHT"
        /\ (PhysX = BgLeft /\ Abs(PhysY - BgTop) > CornerTolerance
                           /\ Abs(PhysY - BgBottom) > CornerTolerance) =>
             hit.result = "RESIZE_LEFT"

\* C4 amended: within edgeTolerance of the left edge the answer is TopLeft if
\* y is less than top + cornerTolerance (however far above the top edge),
\* otherwise BottomLeft if y is at least bottom - cornerTolerance (however far
\* below the bottom edge), otherwise Left; the same for a point within
\* edgeTolerance of the right edge and not of the left; a point on the left
\* edge with top + cornerTolerance <= y < bottom - cornerTolerance is Left.
C4_CornerHalfPlanes ==
    hit.tested =>
        /\ NearLeft =>
             hit.result = IF PhysY < BgTop + CornerTolerance
                          THEN "RESIZE_TOPLEFT"
                          ELSE IF PhysY >= BgBottom - CornerTolerance
                          THEN "RESIZE_BOTTOMLEFT"
                          ELSE "RESIZE_LEFT"
        /\ (~NearLeft /\ NearRight) =>
             hit.result = IF PhysY < BgTop + CornerTolerance
                          THEN "RESIZE_TOPRIGHT"
                          ELSE IF PhysY >= BgBottom - CornerTolerance
                          THEN "RESIZE_BOTTOMRIGHT"
                          ELSE "RESIZE_RIGHT"
        /\ (PhysX = BgLeft /\ PhysY >= BgTop + CornerTolerance
                           /\ PhysY < BgBottom - CornerTolerance) =>
             hit.result = "RESIZE_LEFT"

\* scale 2.0, the cursor exactly on the left edge at mid-height: Left
C4_Witness ==
    /\ hit.tested
    /\ layout.scale = 2 * ScaleDen
    /\ CornerTolerance = 16
    /\ PhysX = BgLeft
    /\ Abs(2 * PhysY - (BgTop + BgBottom)) <= 2
    /\ PhysY - BgTop > CornerTolerance
    /\ BgBottom - PhysY > CornerTolerance
    /\ hit.result = "RESIZE_LEFT"

\* the scaled point lies outside the background and inside the window
InShadowMargin ==
    /\ ~ScaledPointIn(layout.background)
    /\ ScaledPointIn(layout.window)

\* C5 as stated: every point outside the background and inside the window is
\* answered Normal.
C5_ShadowMarginIsNormal ==
    (hit.tested /\ InShadowMargin) => hit.result = "NORMAL"

\* C5 amended: a point outside the background and inside the window is
\* answered Normal when its x is farther than edgeTolerance from the left and
\* the right edge, its y is farther than edgeTolerance from the top and the
\* bottom edge, and the title bar lies inside the background.
C5_ShadowMarginAwayFromEdgesIsNormal ==
    (/\ hit.tested
     /\ InShadowMargin
     /\ ~NearLeft /\ ~NearRight /\ ~NearTop /\ ~NearBottom
     /\ Inside(layout.titleBar, layout.background))
    => hit.result = "NORMAL"

\* scale 1.0, margins 16, the point (8, 8): Normal
C5_Witness ==
    /\ hit.tested
    /\ layout.scale = ScaleDen
    /\ hit.x = 8 /\ hit.y = 8
    /\ InShadowMargin
    /\ BgLeft = 16 /\ BgTop = 16
    /\ EdgeTolerance = 2
    /\ Inside(layout.titleBar, layout.background)
    /\ hit.result = "NORMAL"

----------------------------------------------------------------------------
(* Properties of the program.  op names the operation the last step ran,   *)
(* event the event handleEvent was handed, waitResult what                 *)
(* SDL_WaitEventTimeout returned.                                          *)

HandledType(types) == op' = "handleEvent" /\ event' \in types

\* the frame on screen shows layout L in the palette light selects
FrameShows(f, L, light) ==
    LET p == IF light THEN Light ELSE Dark
    IN /\ f.drawn
       /\ f.shadowW = L.window.w /\ f.shadowH = L.window.h
       /\ f.background = L.background /\ f.borderColor = p.border
       /\ f.titleBar = L.titleBar /\ f.titleBarColor = p.titleBar
       /\ f.clientArea = L.clientArea /\ f.clientColor = p.background

\* C6: the process exits with success exactly when every startup step
\* succeeded and a quit event was handled; a failed startup step exits with
\* failure with no layout computed, nothing drawn and no event waited for;
\* the loop ends only by handling a quit event, and nothing runs after exit.
\* A quit event that is handled is one the event wait delivered.
C6_ExitStatus ==
    /\ [](pc = "exited" <=> exitStatus # "running")
    /\ [](pc = "exited" =>
            (exitStatus = "EXIT_SUCCESS" <=>
               (done = StartupSteps /\ appShouldExit /\ op = "handleEvent"
                /\ event = "QUIT" /\ waitResult)))
    /\ [](exitStatus = "EXIT_FAILURE" =>
            (/\ done # StartupSteps
             /\ layout = ZeroLayout
             /\ frame = NoFrame
             /\ redraws = 0
             /\ op \notin {"setup", "redraw", "handleEvent", "hitTest"}))
    /\ [][(pc \in {"redraw", "wait"} /\ pc' = "exited") =>
            (HandledType({"QUIT"}) /\ waitResult'
             /\ exitStatus' = "EXIT_SUCCESS")]_vars
    /\ [][(op' = "handleEvent" /\ event' # "QUIT") => pc' = "redraw"]_vars
    /\ [][pc = "exited" => FALSE]_vars

\* C7: useLight changes only in main's setup and when a theme-changed event
\* is handled; after either it is true exactly when the system theme queried
\* is not dark; every redraw draws border, title bar and client area from the
\* one palette useLight selects; handling the theme change leaves the layout
\* unchanged.
C7_ThemeFollowsSystem ==
    /\ [][useLight' # useLight =>
            (op' = "setup"
             \/ (HandledType({"SYSTEM_THEME_CHANGED"}) /\ waitResult'))]_vars
    /\ [][(op' = "setup" \/ HandledType({"SYSTEM_THEME_CHANGED"})) =>
            (useLight' <=> ~sysDark')]_vars
    /\ [][(op' = "redraw" /\ redraws' # redraws) =>
            LET p == IF useLight THEN Light ELSE Dark
            IN /\ frame'.borderColor = p.border
               /\ frame'.titleBarColor = p.titleBar
               /\ frame'.clientColor = p.background]_vars
    /\ [][HandledType({"SYSTEM_THEME_CHANGED"}) => layout' = layout]_vars

\* the system went dark, the change was handled and the redraw is all dark
C7_Witness ==
    /\ pc = "wait"
    /\ op = "redraw"
    /\ event = "SYSTEM_THEME_CHANGED"
    /\ waitResult
    /\ sysDark
    /\ ~useLight
    /\ redraws >= 2
    /\ frame.borderColor = Dark.border
    /\ frame.titleBarColor = Dark.titleBar
    /\ frame.clientColor = Dark.background

\* C8: handling an expose, pixel-size, display-scale or theme event sets
\* windowShouldBeRedrawn, and so does every updateLayout; at each redraw
\* opportunity drawWindow runs exactly when the flag is set and the flag is
\* clear afterwards; nothing else draws; so when the loop waits for the next
\* event the flag is clear and the frame on screen shows the current layout
\* and theme.
C8_RedrawOnDirty ==
    /\ [][HandledType({"WINDOW_EXPOSED", "WINDOW_PIXEL_SIZE_CHANGED",
                        "WINDOW_DISPLAY_SCALE_CHANGED", "SYSTEM_THEME_CHANGED"})
            => windowShouldBeRedrawn']_vars
    /\ [][op' = "setup" => windowShouldBeRedrawn']_vars
    /\ [][pc = "redraw" =>
            /\ ~windowShouldBeRedrawn'
            /\ redraws' = redraws + (IF windowShouldBeRedrawn THEN 1 ELSE 0)
            /\ windowShouldBeRedrawn => FrameShows(frame', layout, useLight)
            /\ ~windowShouldBeRedrawn => frame' = frame]_vars
    /\ [][pc # "redraw" => (redraws' = redraws /\ frame' = frame)]_vars
    /\ [](pc = "wait" =>
            (~windowShouldBeRedrawn /\ FrameShows(frame, layout, useLight)))

\* a size change was handled and redrawn: a second frame, showing the new
\* layout, is on screen before the next wait
C8_Witness ==
    /\ pc = "wait"
    /\ op = "redraw"
    /\ event = "WINDOW_PIXEL_SIZE_CHANGED"
    /\ waitResult
    /\ redraws = 2
    /\ layout.window.w = MinSize
    /\ FrameShows(frame, layout, useLight)

\* C9: the layout changes only in updateLayout (main's setup, and the
\* pixel-size and display-scale events), which rewrites all five fields from
\* the window's current pixel size and scale; hitTest, the redraw, and the
\* quit, expose and theme events leave it unchanged; hitTest also leaves the
\* theme, the dirty flag and the exit flag unchanged.
C9_LayoutFrame ==
    /\ [][layout' # layout =>
            /\ \/ op' = "setup"
               \/ HandledType({"WINDOW_PIXEL_SIZE_CHANGED",
                               "WINDOW_DISPLAY_SCALE_CHANGED"})
            /\ layout'.window = Rect(0, 0, winW', winH')
            /\ layout'.scale = dispScale'
            /\ layout'.background = backgroundRect(winW', winH')
            /\ layout'.titleBar = titleBarRect(layout'.background, dispScale')
            /\ layout'.clientArea =
                 clientAreaRect(layout'.background, layout'.titleBar, dispScale')
          ]_vars
    /\ [][op' \in {"hitTest", "redraw"} => layout' = layout]_vars
    /\ [][HandledType({"QUIT", "WINDOW_EXPOSED", "SYSTEM_THEME_CHANGED"})
            => layout' = layout]_vars
    /\ [][op' = "hitTest" =>
            UNCHANGED <<useLight, windowShouldBeRedrawn, appShouldExit>>]_vars

\* an expose event handled after the window changed size: the layout still
\* is the one of the old size
C9_Witness ==
    /\ op = "handleEvent"
    /\ event = "WINDOW_EXPOSED"
    /\ waitResult
    /\ layout.window.w # winW
    /\ layout.scale # dispScale
    /\ windowShouldBeRedrawn

\* C10: a loop iteration whose event wait times out changes no program
\* state: layout, useLight, windowShouldBeRedrawn and appShouldExit are as
\* they were.
C10_TimeoutChangesNothing ==
    [][(op' = "handleEvent" /\ ~waitResult') =>
        UNCHANGED <<layout, useLight, windowShouldBeRedrawn, appShouldExit>>]_vars

====
